---- MODULE Spec2Model ----
(***************************************************************************)
(* Autonoma: the sandboxed executor (utils/code_executor.py), the tester   *)
(* (core/tester.py), the test-repair loop (core/agent.py modify_code) and  *)
(* the execution of a plan (core/agent.py process_query).                  *)
(*                                                                         *)
(* Strings that the code inspects character by character (module names,    *)
(* codebase paths) are sequences of one-character strings, so that the     *)
(* substring test of is_external_module is computed, not assumed.          *)
(***************************************************************************)
EXTENDS Integers, Sequences, FiniteSets, TLC

VARIABLES
    \* CodeExecutor and the interpreter it runs in
    mocked_modules,     \* CodeExecutor.mocked_modules: dict name -> MagicMock, in insertion order
    sys_modules,        \* the interpreter's sys.modules, restricted to ModuleNames
    running,            \* <<>>, or <<the run call that is waiting for its child>>
    \* AutonomaAgent.modify_code and Tester.run_tests
    pc,                 \* where modify_code stands
    raised,             \* the exception that left modify_code, "none" if none did
    code_base,          \* the base codebase, a list of CodeFile (modify_code's codebase)
    modified_code,      \* modify_code's modified_code: the list of CodeChange of a GeneratedCode
    iteration_count,
    response,           \* generate_test_code: the response of llm_interface.generate
    tests,              \* run_tests: test_code_response.tests
    ti,                 \* run_tests: index of the test the for loop is at
    run_unsuccessful,   \* run_tests: its local unsuccessful_tests
    run_successful,     \* run_tests: its local successful_tests
    assigned,           \* whether modify_code's unsuccessful_tests, successful_tests are bound
    unsuccessful_tests,
    successful_tests,
    ri,                 \* modify_code: index of the failing test the repair loop is at
    thought_process,    \* Reflector.thought_process
    task_result,        \* <<>> until modify_code returns, then <<its TaskResult>>
    \* records of what has happened, read by the properties only
    calls,              \* the run calls of the current round of tests, in order (for an
                        \* executor driven directly: its latest call)
    tested_code,        \* the GeneratedCode handed to the latest run_tests call
    repair_log,         \* the repair requests of the current round, in order
    fail_history,       \* the number of failing tests of every finished run_tests call
    repair_rounds,      \* the number of finished repair rounds
    repair_requests,    \* the number of repair requests made
    \* AutonomaAgent.process_query, execute_project and execute_agent_tasks
    project,            \* process_query's project: the plan, a list of Agent
    ai,                 \* execute_project: index of the agent the for loop is at
    agent_results,      \* execute_project's agent_results
    tk,                 \* execute_agent_tasks: index of the task the for loop is at
    task_results,       \* execute_agent_tasks' task_results
    project_result,     \* <<>> until execute_project returns, then <<its ProjectResult>>
    output_directory,   \* the files of the directory "output"
    \* records of what has happened, read by the properties only
    store_calls,        \* the number of calls of store_results
    executed,           \* the <<agent index, task index>> of every execute_task call, in order
    round_codebases     \* the merged codebases that the rounds of the latest task were tested against

execVars == <<mocked_modules, sys_modules, running>>
agentVars == <<pc, raised, code_base, modified_code, iteration_count, response, tests, ti,
               run_unsuccessful, run_successful, assigned, unsuccessful_tests, successful_tests, ri,
               thought_process, task_result>>
logVars == <<tested_code, repair_log, fail_history, repair_rounds, repair_requests>>
projVars == <<project, ai, agent_results, tk, task_results, project_result, output_directory,
              store_calls, executed, round_codebases>>
vars == <<execVars, agentVars, calls, logVars, projVars>>

----------------------------------------------------------------------------
(* Module names and paths *)

M_os == <<"o", "s">>
M_np == <<"n", "p">>
M_py == <<"p", "y">>
M_fi == <<"f", "i">>
M_pi == <<"p", "i">>

ModuleNames == {M_os, M_np, M_py, M_fi, M_pi}

P_np == <<"n", "p", ".", "p", "y">>
P_ut == <<"u", "t", ".", "p", "y">>
P_main == <<"_", "_", "m", "a", "i", "n", "_", "_", ".", "p", "y">>

Paths == {P_np, P_ut, P_main}

\* the standard library of the host runtime (sys.stdlib_module_names)
StandardModules == {M_os, M_fi}

\* the third-party packages installed in the host runtime (as pip is)
site_packages == {M_pi}

\* pkgutil.iter_modules(): the top-level modules found on sys.path, those of
\* site-packages included; a frozen module without a file of its name, as
\* _frozen_importlib is, is not found
iter_modules == {M_os} \cup site_packages

\* sys.builtin_module_names, restricted to ModuleNames
builtin_module_names == {M_os}

\* self.stdlib_modules
stdlib_modules == iter_modules \cup builtin_module_names

\* modules loaded in the interpreter at construction; M_fi is loaded but not
\* listed by pkgutil
InitialSysModules == {M_os, M_fi}

----------------------------------------------------------------------------
(* Source texts *)

NoName == <<>>

Import(names) == [kind |-> "Import", names |-> names, module |-> NoName, body |-> <<>>]
ImportFrom(module) == [kind |-> "ImportFrom", names |-> <<>>, module |-> module, body |-> <<>>]
FunctionDef(body) == [kind |-> "FunctionDef", names |-> <<>>, module |-> NoName, body |-> body]
Expr == [kind |-> "Expr", names |-> <<>>, module |-> NoName, body |-> <<>>]

\* a source text: whether ast.parse accepts it, its statements, and what the
\* statements after the imports do when the text is executed
Source(parsable, stmts, body) == [parsable |-> parsable, stmts |-> stmts, body |-> body]

S_print4 == Source(TRUE, <<Import(<< <<M_os>> >>), FunctionDef(<<Expr>>)>>, "print4")
S_assert == Source(TRUE, <<Expr>>, "assert_fail")
S_loop == Source(TRUE, <<Expr>>, "loop")
S_np == Source(TRUE, <<Import(<< <<M_np>> >>)>>, "ref_only")
S_from == Source(TRUE, <<ImportFrom(<<M_py, M_np>>)>>, "ref_only")
S_mix == Source(TRUE, <<FunctionDef(<<Import(<< <<M_fi>> >>), ImportFrom(NoName)>>),
                        Import(<< <<M_np, M_py>>, <<M_os>> >>),
                        Import(<< <<M_np>> >>)>>, "ref_only")
S_pi == Source(TRUE, <<Import(<< <<M_pi>> >>)>>, "ref_only")
S_bad == Source(FALSE, <<>>, "none")

Snippets == {S_print4, S_assert, S_loop, S_np, S_from, S_mix, S_pi, S_bad}

\* file contents of the codebase
F_a == Source(TRUE, <<Expr>>, "lib_a")
F_b == Source(TRUE, <<Expr>>, "lib_b")
F_c == Source(TRUE, <<Expr>>, "lib_c")

----------------------------------------------------------------------------
(* CodeExecutor *)

RECURSIVE walk_top_level(_)
\* [mutant] only the statements of the module body are looked at
walk_top_level(queue) ==
    IF queue = <<>> THEN <<>>
    ELSE LET node == Head(queue)
             found == IF node.kind = "Import"
                        THEN [i \in 1..Len(node.names) |-> Head(node.names[i])]
                      ELSE IF node.kind = "ImportFrom" /\ node.module # NoName
                        THEN <<Head(node.module)>>
                      ELSE <<>>
         IN found \o walk_top_level(Tail(queue))

RECURSIVE walk(_)
\* ast.walk: breadth-first over the statements; an Import contributes the
\* first segment of every alias, an ImportFrom that of its module if any
walk(queue) ==
    IF queue = <<>> THEN <<>>
    ELSE LET node == Head(queue)
             found == IF node.kind = "Import"
                        THEN [i \in 1..Len(node.names) |-> Head(node.names[i])]
                      ELSE IF node.kind = "ImportFrom" /\ node.module # NoName
                        THEN <<Head(node.module)>>
                      ELSE <<>>
         IN found \o walk(Tail(queue) \o node.body)

analyze_imports(code) == walk(code.stmts)

\* Python's `name in file_path` for strings
IsSubstring(name, path) ==
    \E k \in 0..(Len(path) - Len(name)) :
        \A i \in 1..Len(name) : path[k + i] = name[i]

is_external_module(module_name, codebase) ==
    IF module_name \in stdlib_modules THEN FALSE
    ELSE IF \E file_path \in DOMAIN codebase : IsSubstring(module_name, file_path) THEN FALSE
    ELSE TRUE

MockKeys(mm) == {mm[i].name : i \in 1..Len(mm)}

\* a MagicMock made for module_name; id tells the objects apart
create_mock_module(module_name, id) == [kind |-> "mock", name |-> module_name, id |-> id]

RealModule(module_name) == [kind |-> "real", name |-> module_name, id |-> 0]
Absent == [kind |-> "absent", name |-> NoName, id |-> 0]

RECURSIVE mock_each_unguarded(_, _, _)
\* [mutant] a stand-in is made for every import of an external name, also
\* when the name has one
mock_each_unguarded(mm, imports, codebase) ==
    IF imports = <<>> THEN mm
    ELSE LET module_name == Head(imports)
             mm1 == IF is_external_module(module_name, codebase)
                      THEN Append(mm, [name |-> module_name,
                                       mock |-> create_mock_module(module_name, Len(mm) + 1)])
                    ELSE mm
         IN mock_each_unguarded(mm1, Tail(imports), codebase)

RECURSIVE mock_each(_, _, _)
mock_each(mm, imports, codebase) ==
    IF imports = <<>> THEN mm
    ELSE LET module_name == Head(imports)
             mm1 == IF is_external_module(module_name, codebase) /\ module_name \notin MockKeys(mm)
                      THEN Append(mm, [name |-> module_name,
                                       mock |-> create_mock_module(module_name, Len(mm) + 1)])
                    ELSE mm
         IN mock_each(mm1, Tail(imports), codebase)

mock_external_modules(mm, code, codebase) == mock_each(mm, analyze_imports(code), codebase)

\* [mutant] the stand-ins are made but not put into sys.modules
patch_modules_skipped(mm, sm) == sm

patch_modules(mm, sm) ==
    [n \in DOMAIN sm |->
        IF n \in MockKeys(mm)
          THEN (CHOOSE e \in {mm[i] : i \in 1..Len(mm)} : e.name = n).mock
        ELSE sm[n]]

\* [mutant] the finally block removes nothing
unpatch_modules_skipped(mm, sm) == sm

unpatch_modules(mm, sm) ==
    [n \in DOMAIN sm |-> IF n \in MockKeys(mm) THEN Absent ELSE sm[n]]

----------------------------------------------------------------------------
(* The child process of run *)

\* the wall-clock budget handed to subprocess.run
timeout == 10

\* what the host does to one run call: nothing special, a failing write into
\* the scoped directory, a child that does not finish in time, a child that
\* dies with a non-zero status, a child that cannot be spawned
Envs == {"normal", "fs_error", "slow", "crash", "spawn_error"}

\* the module table of the fresh interpreter when its -c program starts:
\* the -c program itself is the module __main__
ChildSysModules == {"sys", "__main__"}

PyFile(module_name) == module_name \o <<".", "p", "y">>

\* the import system of the child: its own table and search path, which
\* holds the standard modules and the scoped directory, not the parent's table
child_resolve(module_name, temp_dir) ==
    IF module_name \in stdlib_modules \cup StandardModules THEN "real"
    ELSE IF PyFile(module_name) \in DOMAIN temp_dir THEN "local"
    ELSE "ModuleNotFoundError"

\* the entry-point file executed as a module
execute_entry(temp_dir) ==
    LET code == temp_dir[P_main]
        names == IF code.parsable THEN analyze_imports(code) ELSE <<>>
        resolved == [i \in 1..Len(names) |-> child_resolve(names[i], temp_dir)]
        missing == \E i \in 1..Len(names) : resolved[i] = "ModuleNotFoundError"
    IN  IF ~code.parsable
          THEN [entry_executed |-> TRUE, resolved |-> <<>>, returncode |-> 1,
                stdout |-> <<>>, stderr |-> <<"SyntaxError">>, elapsed |-> 1]
        ELSE IF missing
          THEN [entry_executed |-> TRUE, resolved |-> resolved, returncode |-> 1,
                stdout |-> <<>>, stderr |-> <<"ModuleNotFoundError">>, elapsed |-> 1]
        ELSE IF code.body = "print4"
          THEN [entry_executed |-> TRUE, resolved |-> resolved, returncode |-> 0,
                stdout |-> <<"4">>, stderr |-> <<>>, elapsed |-> 1]
        ELSE IF code.body = "assert_fail"
          THEN [entry_executed |-> TRUE, resolved |-> resolved, returncode |-> 1,
                stdout |-> <<>>, stderr |-> <<"AssertionError">>, elapsed |-> 1]
        ELSE IF code.body = "loop"
          THEN [entry_executed |-> TRUE, resolved |-> resolved, returncode |-> 0,
                stdout |-> <<>>, stderr |-> <<>>, elapsed |-> timeout + 1]
        ELSE [entry_executed |-> TRUE, resolved |-> resolved, returncode |-> 0,
              stdout |-> <<>>, stderr |-> <<>>, elapsed |-> 1]

\* python -c "import sys; sys.path.insert(0, temp_dir); import __main__":
\* an import of a name already in the module table returns that module
child_program(temp_dir) ==
    IF "__main__" \in ChildSysModules
      THEN [entry_executed |-> FALSE, resolved |-> <<>>, returncode |-> 0,
            stdout |-> <<>>, stderr |-> <<>>, elapsed |-> 1]
    ELSE execute_entry(temp_dir)

NoChild == [entry_executed |-> FALSE, resolved |-> <<>>, returncode |-> 0,
            stdout |-> <<>>, stderr |-> <<>>, elapsed |-> 0]

\* subprocess.run(..., timeout=10): a CompletedProcess, TimeoutExpired or
\* another exception
subprocess_run(temp_dir, env) ==
    IF env = "spawn_error" THEN [outcome |-> "OSError", child |-> NoChild]
    ELSE LET program == child_program(temp_dir)
             child == IF env = "crash"
                        THEN [entry_executed |-> FALSE, resolved |-> <<>>, returncode |-> 1,
                              stdout |-> <<>>, stderr |-> <<"Fatal Python error">>, elapsed |-> 1]
                      ELSE IF env = "slow" THEN [program EXCEPT !.elapsed = timeout + 1]
                      ELSE program
         IN IF child.elapsed > timeout
              THEN [outcome |-> "TimeoutExpired", child |-> child]
            ELSE [outcome |-> "CompletedProcess", child |-> child]

----------------------------------------------------------------------------
(* CodeExecutor.run *)

ExecutionResult(success, output, mocked) ==
    [success |-> success, output |-> output, mocked_modules |-> mocked]

NoResult == ExecutionResult(FALSE, <<>>, <<>>)
NoFiles == [p \in {} |-> F_a]

keys(mm) == [i \in 1..Len(mm) |-> mm[i].name]

\* [mutant] __main__.py is written first and the codebase files after it
write_files_snippet_first(code, codebase) ==
    [p \in DOMAIN codebase \cup {P_main} |-> IF p \in DOMAIN codebase THEN codebase[p] ELSE code]

\* the scoped directory after the codebase files and then __main__.py are written
write_files(code, codebase) ==
    [p \in DOMAIN codebase \cup {P_main} |-> IF p = P_main THEN code ELSE codebase[p]]

\* [mutant] the output is taken from stdout whatever the exit status
result_of_stdout_only(sp, mm) ==
    IF sp.outcome = "CompletedProcess"
      THEN ExecutionResult(sp.child.returncode = 0, sp.child.stdout, keys(mm))
    ELSE IF sp.outcome = "TimeoutExpired"
      THEN ExecutionResult(FALSE, <<"Execution timed out">>, keys(mm))
    ELSE ExecutionResult(FALSE, <<sp.outcome>>, keys(mm))

\* the try block: the result returned on each outcome of subprocess.run
result_of(sp, mm) ==
    IF sp.outcome = "CompletedProcess"
      THEN ExecutionResult(sp.child.returncode = 0,
                           IF sp.child.returncode = 0 THEN sp.child.stdout ELSE sp.child.stderr,
                           keys(mm))
    ELSE IF sp.outcome = "TimeoutExpired"
      THEN ExecutionResult(FALSE, <<"Execution timed out">>, keys(mm))
    ELSE ExecutionResult(FALSE, <<sp.outcome>>, keys(mm))

\* TemporaryDirectory.__exit__: the directory is removed however the block is left
TemporaryDirectory_exit(temp_dir) == "removed"

\* the record of one call: how it ended, what it returned, the executor's and
\* the interpreter's state after it, and what happened inside it
Raise(exc, mm, sm, temp_dir) ==
    [raised |-> TRUE, exc |-> exc, result |-> NoResult,
     mocked_modules |-> mm, sys_modules |-> sm,
     temp_dir |-> temp_dir, patched |-> sm, installed |-> {},
     sp |-> [outcome |-> "none", child |-> NoChild],
     dir_after |-> TemporaryDirectory_exit(temp_dir)]

run(mm, sm, code, codebase, env) ==
    IF env = "fs_error" THEN Raise("OSError", mm, sm, NoFiles)
    ELSE LET temp_dir == write_files(code, codebase)
         IN IF ~code.parsable THEN Raise("SyntaxError", mm, sm, temp_dir)
            ELSE LET mm1 == mock_external_modules(mm, code, codebase)
                     sm1 == patch_modules(mm1, sm)
                     sp == subprocess_run(temp_dir, env)
                 IN [raised |-> FALSE, exc |-> "none", result |-> result_of(sp, mm1),
                     mocked_modules |-> mm1, sys_modules |-> unpatch_modules(mm1, sm1),
                     temp_dir |-> temp_dir, patched |-> sm1, installed |-> MockKeys(mm1),
                     sp |-> sp, dir_after |-> TemporaryDirectory_exit(temp_dir)]

----------------------------------------------------------------------------
(* Calls on one executor *)

B_empty == NoFiles
B_np == [p \in {P_np} |-> F_a]
B_main == [p \in {P_ut, P_main} |-> IF p = P_main THEN F_b ELSE F_a]

Codebases == {B_empty, B_np, B_main}

Call(code, cb, env, r) == [code |-> code, codebase |-> cb, env |-> env, r |-> r]

\* a response of the language model to generate_test_code, by what parsing
\* makes of it
Response(kind, ts) == [kind |-> kind, tests |-> ts]
NoResponse == Response("none", <<>>)

\* CodeExecutor.__init__ in a fresh interpreter
ExecutorInit ==
    /\ mocked_modules = <<>>
    /\ sys_modules = [n \in ModuleNames |-> IF n \in InitialSysModules THEN RealModule(n) ELSE Absent]
    /\ running = <<>>
    /\ calls = <<>>

\* the locals of modify_code before its first statement
AgentIdle ==
    /\ raised = "none"
    /\ modified_code = <<>>
    /\ iteration_count = 0
    /\ response = NoResponse
    /\ tests = <<>>
    /\ ti = 0
    /\ run_unsuccessful = <<>>
    /\ run_successful = <<>>
    /\ assigned = FALSE
    /\ unsuccessful_tests = <<>>
    /\ successful_tests = <<>>
    /\ ri = 0
    /\ thought_process = <<>>
    /\ task_result = <<>>
    /\ tested_code = <<>>
    /\ repair_log = <<>>
    /\ fail_history = <<>>
    /\ repair_rounds = 0
    /\ repair_requests = 0

\* the output directory: project.json, the stored files, thought_process.txt
NotStored == [project_json |-> <<>>, files |-> NoFiles, thought_process_txt |-> <<>>]

\* no process_query in progress
ProjectIdle ==
    /\ project = <<>>
    /\ ai = 0
    /\ agent_results = <<>>
    /\ tk = 0
    /\ task_results = <<>>
    /\ project_result = <<>>
    /\ output_directory = NotStored
    /\ store_calls = 0
    /\ executed = <<>>
    /\ round_codebases = <<>>

\* an executor driven directly, with no modify_code in progress
ExecInit ==
    /\ ExecutorInit
    /\ AgentIdle
    /\ ProjectIdle
    /\ pc = "idle"
    /\ code_base = <<>>

\* code_executor.run(code, cb) on the executor as it stands
Run ==
    \E code \in Snippets, cb \in Codebases, env \in Envs :
        \E r \in {run(mocked_modules, sys_modules, code, cb, env)} :
           /\ mocked_modules' = r.mocked_modules
           /\ sys_modules' = r.sys_modules
           /\ calls' = <<Call(code, cb, env, r)>>
           /\ UNCHANGED <<running, agentVars, logVars>>
    /\ UNCHANGED projVars

\* CodeExecutor(): a new executor in the same interpreter
NewExecutor ==
    /\ calls # <<>>
    /\ mocked_modules # <<>>
    /\ mocked_modules' = <<>>
    /\ calls' = <<>>
    /\ UNCHANGED <<sys_modules, running, agentVars, logVars>>
    /\ UNCHANGED projVars

ExecNext == Run \/ NewExecutor

ExecSpec == ExecInit /\ [][ExecNext]_vars

----------------------------------------------------------------------------
(* Data of the test-repair loop *)

CodeFile(path, content) == [path |-> path, content |-> content]
CodeChange(code, path) == [code |-> code, path |-> path]
TestCode(test_code, test_path, original_code_path) ==
    [test_code |-> test_code, test_path |-> test_path, original_code_path |-> original_code_path]
TestResult(success, message, test_code, original_code_path) ==
    [success |-> success, message |-> message, test_code |-> test_code,
     original_code_path |-> original_code_path]
TaskResult(success, output, modified_files, test_results) ==
    [success |-> success, output |-> output, modified_files |-> modified_files,
     test_results |-> test_results]

\* [mutant] a cap of zero: the loop body is never entered
max_iterations_zero == 1 - 1

\* the iteration cap of modify_code
max_iterations == 3

\* [mutant] the indicator is written only past the cap
iterations_exhausted_past_cap(n) == n > max_iterations

\* if iteration_count == max_iterations
iterations_exhausted(n) == n = max_iterations

\* the longest list of tests the test generator returns
MaxTests == 2

\* the length at which the records kept for the properties stop growing
\* (never reached by process_query or modify_code as written)
MaxLog == 20

\* the base codebase a task is run against
BaseCodebases == {<<CodeFile(P_ut, F_a), CodeFile(P_main, F_b)>>}

\* what the host does to the run calls of run_tests
TestEnvs == {"normal", "slow", "fs_error"}

\* what generate_code and modify_code_based_on_test may return
G_ut == <<CodeChange(F_b, P_ut)>>
G_np == <<CodeChange(F_a, P_np)>>
G_dup == <<CodeChange(F_a, P_ut), CodeChange(F_c, P_ut)>>

ChangeSets == {G_ut, G_np, G_dup}

\* what generate_test_code may return
T_ut == TestCode(S_assert, P_ut, P_ut)
T_np == TestCode(S_np, P_np, P_np)

Tests == {T_ut, T_np}

TestLists == UNION {[1..n -> Tests] : n \in 0..MaxTests}

\* what llm_interface.generate may answer to the prompt of generate_test_code:
\* the JSON of a list of tests, a text that is no JSON, JSON that is no object,
\* or a JSON object without a well-formed "tests" field
Malformed == {"not_json", "not_an_object", "wrong_fields"}
Responses == {Response("tests", ts) : ts \in TestLists} \cup {Response(k, <<>>) : k \in Malformed}

Returned(value) == [raised |-> FALSE, exc |-> "none", value |-> value]
Raised(name) == [raised |-> TRUE, exc |-> name, value |-> <<>>]

\* [mutant] a response that cannot be parsed counts as an empty list of tests
generate_test_code_lenient(resp) ==
    Returned(IF resp.kind = "tests" THEN resp.tests ELSE <<>>)

\* generate_test_code: json.loads(response), then TestCodeResponse(**parsed_response)
generate_test_code(resp) ==
    CASE resp.kind = "not_json" -> Raised("ValueError")
      [] resp.kind = "not_an_object" -> Raised("TypeError")
      [] resp.kind = "wrong_fields" -> Raised("ValidationError")
      [] OTHER -> Returned(resp.tests)

\* Reflector.reflect
Thought(text, n, k) == [text |-> text, n |-> n, k |-> k]
reflect(tp, thought) == IF Len(tp) < MaxLog THEN Append(tp, thought) ELSE tp

Logged(log, entry) == IF Len(log) < MaxLog THEN Append(log, entry) ELSE log
Counted(n) == IF n < MaxLog THEN n + 1 ELSE n

RECURSIVE dict_update(_, _, _)
\* a dict filled entry by entry from a list: a later entry replaces an earlier
\* one with the same key
dict_update(dict, entries, value_field) ==
    IF entries = <<>> THEN dict
    ELSE LET e == Head(entries)
             dict1 == [p \in DOMAIN dict \cup {e.path} |->
                          IF p = e.path THEN e[value_field] ELSE dict[p]]
         IN dict_update(dict1, Tail(entries), value_field)

\* [mutant] only the files of the ChangeSet are in the dict
updated_codebase_changes_only(code_changes, cb) == dict_update(NoFiles, code_changes, "code")

\* [mutant] the base files are laid over the files of the ChangeSet
updated_codebase_base_wins(code_changes, cb) ==
    dict_update(dict_update(NoFiles, code_changes, "code"), cb, "content")

\* run_tests: {file.path: file.content for file in codebase}, then one
\* assignment per file_change
updated_codebase(code_changes, cb) ==
    dict_update(dict_update(NoFiles, cb, "content"), code_changes, "code")

\* modify_code: {file_change.path: file_change.code for file_change in code_changes}
modified_files_of(code_changes) == dict_update(NoFiles, code_changes, "code")

----------------------------------------------------------------------------
(* AutonomaAgent.modify_code, with Tester.run_tests inlined *)

Init ==
    /\ ExecutorInit
    /\ AgentIdle
    /\ ProjectIdle
    /\ pc = "modify_code"
    /\ code_base \in BaseCodebases

RaiseFrom(name) ==
    /\ pc' = "raised"
    /\ raised' = name

\* coder_agent.generate_code, then max_iterations = 3, iteration_count = 0
GenerateCode ==
    /\ pc = "modify_code"
    /\ thought_process' = reflect(thought_process, Thought("Modifying code in files", 0, 0))
    /\ \/ /\ \E code \in ChangeSets : modified_code' = code
          /\ iteration_count' = 0
          /\ pc' = "while"
          /\ UNCHANGED raised
       \/ /\ RaiseFrom("ValidationError")
          /\ UNCHANGED <<modified_code, iteration_count>>
    /\ UNCHANGED <<execVars, code_base, response, tests, ti, run_unsuccessful, run_successful, assigned,
                   unsuccessful_tests, successful_tests, ri, task_result, calls, logVars>>
    /\ UNCHANGED projVars

\* while iteration_count < max_iterations: run_tests is entered and asks for
\* the tests of modified_code. The lists bound by the round before and the
\* index of its repair loop are dead from here on (the return of run_tests
\* rebinds both lists before anything reads them), so they are cleared.
GenerateTests ==
    /\ pc = "while"
    /\ iteration_count < max_iterations
    /\ tested_code' = modified_code
    /\ calls' = <<>>
    /\ repair_log' = <<>>
    /\ unsuccessful_tests' = <<>>
    /\ successful_tests' = <<>>
    /\ ri' = 0
    /\ \E resp \in Responses :
          \E test_code_response \in {generate_test_code(resp)} :
             /\ response' = resp
             /\ IF test_code_response.raised
                  THEN /\ RaiseFrom(test_code_response.exc)
                       /\ UNCHANGED <<tests, run_unsuccessful, run_successful, ti>>
                ELSE /\ tests' = test_code_response.value
                     /\ run_unsuccessful' = <<>>
                     /\ run_successful' = <<>>
                     /\ ti' = 1
                     /\ pc' = "run_tests"
                     /\ UNCHANGED raised
    /\ UNCHANGED <<execVars, code_base, modified_code, iteration_count, assigned,
                   thought_process, task_result, fail_history, repair_rounds, repair_requests>>
    /\ UNCHANGED projVars

\* [mutant] a run that timed out is not counted as a failure
failed_unless_timed_out(result) ==
    ~result.success /\ result.output # <<"Execution timed out">>

\* if not result.success
failed(result) == ~result.success

\* one pass of run_tests' for loop, up to subprocess.run: the codebase is
\* merged, run writes the directory, makes and installs the stand-ins and
\* starts the child (or raises before that)
RunTest ==
    /\ pc = "run_tests"
    /\ ti <= Len(tests)
    /\ running = <<>>
    /\ \E env \in TestEnvs :
          \E test_code \in {tests[ti]} :
          \E cb \in {updated_codebase(modified_code, code_base)} :
          \E r \in {run(mocked_modules, sys_modules, test_code.test_code, cb, env)} :
             /\ mocked_modules' = r.mocked_modules
             /\ IF r.raised
                  THEN /\ sys_modules' = r.sys_modules
                       /\ calls' = Append(calls, Call(test_code.test_code, cb, env, r))
                       /\ RaiseFrom(r.exc)
                       /\ UNCHANGED running
                ELSE /\ sys_modules' = r.patched
                     /\ running' = <<Call(test_code.test_code, cb, env, r)>>
                     /\ UNCHANGED <<calls, pc, raised>>
    /\ UNCHANGED <<code_base, modified_code, iteration_count, response, tests, ti,
                   run_unsuccessful, run_successful, assigned, unsuccessful_tests,
                   successful_tests, ri, thought_process, task_result, logVars>>
    /\ UNCHANGED projVars

\* the rest of the pass: the child has ended or was killed, run's finally
\* block removes the stand-ins, run returns and the outcome is put in its list
RunTestEnd ==
    /\ pc = "run_tests"
    /\ running # <<>>
    /\ \E call \in {running[1]} :
          \E test_result \in {TestResult(call.r.result.success, call.r.result.output,
                                         tests[ti].test_code, tests[ti].original_code_path)} :
             /\ sys_modules' = call.r.sys_modules
             /\ running' = <<>>
             /\ calls' = Append(calls, call)
             /\ ti' = ti + 1
             /\ IF failed(call.r.result)
                  THEN /\ run_unsuccessful' = Append(run_unsuccessful, test_result)
                       /\ UNCHANGED run_successful
                ELSE /\ run_successful' = Append(run_successful, test_result)
                     /\ UNCHANGED run_unsuccessful
    /\ UNCHANGED <<mocked_modules, pc, raised, code_base, modified_code, iteration_count,
                   response, tests, assigned, unsuccessful_tests, successful_tests, ri,
                   thought_process, task_result, logVars>>
    /\ UNCHANGED projVars

\* run_tests returns; modify_code binds the two lists and leaves the loop or
\* starts to repair
RunTestsReturn ==
    /\ pc = "run_tests"
    /\ ti > Len(tests)
    /\ unsuccessful_tests' = run_unsuccessful
    /\ successful_tests' = run_successful
    /\ assigned' = TRUE
    /\ fail_history' = Logged(fail_history, Len(run_unsuccessful))
    /\ IF run_unsuccessful = <<>>
         THEN /\ thought_process' = reflect(thought_process, Thought("All tests passed successfully.", 0, 0))
              /\ pc' = "after_loop"
              /\ UNCHANGED ri
       ELSE /\ thought_process' = reflect(thought_process,
                    Thought("Iteration: tests failed. Attempting to fix...",
                            iteration_count + 1, Len(run_unsuccessful)))
            /\ pc' = "repair"
            /\ ri' = 1
    /\ UNCHANGED <<execVars, raised, code_base, modified_code, iteration_count, response, tests, ti,
                   run_unsuccessful, run_successful, task_result, calls, tested_code,
                   repair_log, repair_rounds, repair_requests>>
    /\ UNCHANGED projVars

\* [mutant] the failing tests are taken last first
test_at_reversed(failing, i) == failing[Len(failing) + 1 - i]

\* for test in unsuccessful_tests: the test of the i-th pass
test_at(failing, i) == failing[i]

\* one pass of for test in unsuccessful_tests: modified_code is replaced by
\* what modify_code_based_on_test returns for it
Repair ==
    /\ pc = "repair"
    /\ ri <= Len(unsuccessful_tests)
    /\ repair_requests' = Counted(repair_requests)
    /\ \/ /\ \E code \in ChangeSets :
                /\ modified_code' = code
                /\ repair_log' = Logged(repair_log,
                       [code |-> modified_code,
                        test |-> test_at(unsuccessful_tests, ri).test_code,
                        test_result |-> test_at(unsuccessful_tests, ri).message,
                        returned |-> code])
          /\ ri' = ri + 1
          /\ UNCHANGED <<pc, raised>>
       \/ /\ RaiseFrom("ValidationError")
          /\ UNCHANGED <<modified_code, repair_log, ri>>
    /\ UNCHANGED <<execVars, code_base, iteration_count, response, tests, ti, run_unsuccessful,
                   run_successful, assigned, unsuccessful_tests, successful_tests,
                   thought_process, task_result, calls, tested_code, fail_history,
                   repair_rounds>>
    /\ UNCHANGED projVars

\* [mutant] the counter is not advanced
next_iteration_count_stuck(n) == n

\* [mutant] the counter is advanced twice in a round
next_iteration_count_twice(n) == n + 2

next_iteration_count(n) == n + 1

\* iteration_count += 1, back to the loop test
EndRound ==
    /\ pc = "repair"
    /\ ri > Len(unsuccessful_tests)
    /\ iteration_count' = next_iteration_count(iteration_count)
    /\ repair_rounds' = Counted(repair_rounds)
    /\ pc' = "while"
    /\ UNCHANGED <<execVars, raised, code_base, modified_code, response, tests, ti, run_unsuccessful,
                   run_successful, assigned, unsuccessful_tests, successful_tests, ri,
                   thought_process, task_result, calls, tested_code, repair_log,
                   fail_history, repair_requests>>
    /\ UNCHANGED projVars

\* [mutant] the first entry of a duplicated path is kept and the failing
\* outcomes come first
result_of_task_reordered(code_changes, failing, passing) ==
    TaskResult(Len(failing) = 0,
               IF failing = <<>> THEN "Code modification complete"
               ELSE "Some tests are still failing",
               [p \in {code_changes[i].path : i \in 1..Len(code_changes)} |->
                   code_changes[CHOOSE i \in 1..Len(code_changes) :
                                   /\ code_changes[i].path = p
                                   /\ \A j \in 1..(i - 1) : code_changes[j].path # p].code],
               failing \o passing)

\* [mutant] success also asks for a test that passed
result_of_task_needs_pass(code_changes, failing, passing) ==
    TaskResult(Len(failing) = 0 /\ Len(passing) > 0,
               IF failing = <<>> THEN "Code modification complete"
               ELSE "Some tests are still failing",
               modified_files_of(code_changes),
               passing \o failing)

\* the TaskResult built after the loop
result_of_task(code_changes, failing, passing) ==
    TaskResult(Len(failing) = 0,
               IF failing = <<>> THEN "Code modification complete"
               ELSE "Some tests are still failing",
               modified_files_of(code_changes),
               passing \o failing)

\* the statements after the loop, reached by break or by the loop test failing
Finish ==
    /\ \/ pc = "after_loop"
       \/ pc = "while" /\ ~(iteration_count < max_iterations)
    /\ thought_process' =
          IF iterations_exhausted(iteration_count)
            THEN reflect(thought_process,
                         Thought("Maximum iterations reached. Some tests are still failing.", 0, 0))
          ELSE thought_process
    /\ IF assigned
         THEN /\ task_result' = <<result_of_task(modified_code, unsuccessful_tests, successful_tests)>>
              /\ pc' = "done"
              /\ UNCHANGED raised
       ELSE /\ RaiseFrom("UnboundLocalError")
            /\ UNCHANGED task_result
    /\ UNCHANGED <<execVars, code_base, modified_code, iteration_count, response, tests, ti,
                   run_unsuccessful, run_successful, assigned, unsuccessful_tests,
                   successful_tests, ri, calls, logVars>>
    /\ UNCHANGED projVars

Next ==
    \/ GenerateCode
    \/ GenerateTests
    \/ RunTest
    \/ RunTestEnd
    \/ RunTestsReturn
    \/ Repair
    \/ EndRound
    \/ Finish

Spec == Init /\ [][Next]_vars

\* modify_code is a sequential program: it takes its next step whenever it has one
FairSpec == Spec /\ WF_vars(Next)

----------------------------------------------------------------------------
(* AutonomaAgent.process_query: the plan, its agents and their tasks *)

Task(id, task_type) == [id |-> id, task_type |-> task_type]
Agent(name, agent_tasks) == [name |-> name, tasks |-> agent_tasks]
AgentResult(agent_name, results) == [agent_name |-> agent_name, task_results |-> results]
ProjectResult(plan, results, modified, new, unchanged, thoughts) ==
    [project |-> plan, agent_results |-> results, modified_files |-> modified,
     new_files |-> new, unchanged_files |-> unchanged, thought_process |-> thoughts]

K_code1 == Task("t1", "code_implementation")
K_code2 == Task("t2", "code_implementation")
K_analysis == Task("t3", "code_analysis")

\* the plans create_query_plan may return
Projects == {<<>>,
             <<Agent("a", <<K_code1, K_code2>>)>>,
             <<Agent("a", <<K_code1>>), Agent("b", <<K_analysis, K_code2>>)>>,
             <<Agent("a", <<>>), Agent("b", <<K_analysis>>)>>}

\* what one call of run_tests may return to modify_code: its lists of failing
\* and of passing TestResults
R_fail == TestResult(FALSE, <<"AssertionError">>, S_assert, P_ut)
R_pass == TestResult(TRUE, <<>>, S_np, P_np)

TestOutcomes == {[failing |-> f, passing |-> p] : f \in {<<>>, <<R_fail>>}, p \in {<<>>, <<R_pass>>}}

\* the errors with which a collaborator (code generation, test generation,
\* repair, sandbox) can leave modify_code
CollaboratorErrors == {"ValidationError", "ValueError", "TypeError", "OSError", "SyntaxError"}

\* [mutant] the loop stops after the first element
for_loop_done_early(list, i) == i > Len(list) \/ i > 1

\* for x in list: the loop is over when the index is past the last element
for_loop_done(list, i) == i > Len(list)

RECURSIVE test_repair_loop(_, _, _, _)
\* modify_code from the loop test on, for given answers of its collaborators:
\* outcomes[n] is what run_tests returns in round n, repairs[n] the
\* modified_code that the repairs of round n end with. merged lists the
\* codebase that run_tests builds for the tests of each round that has tests.
test_repair_loop(st, cb, outcomes, repairs) ==
    IF ~(st.iteration_count < max_iterations) THEN st
    ELSE LET o == outcomes[st.iteration_count + 1]
             st1 == [st EXCEPT !.unsuccessful_tests = o.failing,
                               !.successful_tests = o.passing,
                               !.merged =
                                  IF o.failing \o o.passing = <<>> THEN @
                                  ELSE Append(@, [modified_code |-> st.modified_code,
                                                  codebase |-> updated_codebase(st.modified_code, cb)])]
         IN IF o.failing = <<>>
              THEN [st1 EXCEPT !.thoughts =
                       reflect(@, Thought("All tests passed successfully.", 0, 0))]
            ELSE test_repair_loop(
                   [st1 EXCEPT !.thoughts =
                                  reflect(@, Thought("Iteration: tests failed. Attempting to fix...",
                                                     st.iteration_count + 1, Len(o.failing))),
                               !.modified_code = repairs[st.iteration_count + 1],
                               !.iteration_count = next_iteration_count(@)],
                   cb, outcomes, repairs)

\* modify_code(task, agent, codebase) as one call: the TaskResult it returns,
\* the thoughts it leaves and the codebases its rounds were tested against
modify_code(tp, cb, generated, outcomes, repairs) ==
    LET st == test_repair_loop(
                 [modified_code |-> generated, iteration_count |-> 0,
                  unsuccessful_tests |-> <<>>, successful_tests |-> <<>>,
                  thoughts |-> reflect(tp, Thought("Modifying code in files", 0, 0)),
                  merged |-> <<>>],
                 cb, outcomes, repairs)
    IN [task_result |-> result_of_task(st.modified_code, st.unsuccessful_tests,
                                       st.successful_tests),
        thoughts |-> IF iterations_exhausted(st.iteration_count)
                       THEN reflect(st.thoughts,
                              Thought("Maximum iterations reached. Some tests are still failing.", 0, 0))
                     ELSE st.thoughts,
        merged |-> st.merged]

\* execute_llm_task: TaskResult(task_id, success=True, output=result), the
\* file maps left to their default
execute_llm_task(tp) ==
    [task_result |-> TaskResult(TRUE, "llm_output", NoFiles, <<>>),
     thoughts |-> reflect(tp, Thought("Executing LLM task", 0, 0)),
     merged |-> <<>>]

\* dict.update(other)
update(dict, other) ==
    [p \in DOMAIN dict \cup DOMAIN other |-> IF p \in DOMAIN other THEN other[p] ELSE dict[p]]

RECURSIVE all_task_results(_)
\* the task results of the agent results, in the order of the two for loops
all_task_results(results) ==
    IF results = <<>> THEN <<>>
    ELSE Head(results).task_results \o all_task_results(Tail(results))

RECURSIVE update_each(_, _, _)
update_each(dict, results, field) ==
    IF results = <<>> THEN dict
    ELSE update_each(update(dict, Head(results)[field]), Tail(results), field)

\* [mutant] the files of a task that did not succeed are left out
get_modified_files_of_successful(results) ==
    update_each(NoFiles, SelectSeq(all_task_results(results), LAMBDA r : r.success),
                "modified_files")

\* [mutant] the first task to report a path keeps it
get_modified_files_first_wins(results) ==
    LET all == all_task_results(results)
    IN update_each(NoFiles, [i \in 1..Len(all) |-> all[Len(all) + 1 - i]], "modified_files")

\* get_modified_files
get_modified_files(results) == update_each(NoFiles, all_task_results(results), "modified_files")

\* TaskResult.new_files: default_factory=dict, and no TaskResult is built with it
new_files_of(result) == [new_files |-> NoFiles]

\* get_new_files
get_new_files(results) ==
    LET all == all_task_results(results)
    IN update_each(NoFiles, [i \in 1..Len(all) |-> new_files_of(all[i])], "new_files")

\* [mutant] every base file is listed as unchanged
unchanged_files_all(cb, modified) == dict_update(NoFiles, cb, "content")

\* {file.path: file.content for file in code_base if file.path not in modified_files}
unchanged_files(cb, modified) ==
    dict_update(NoFiles, SelectSeq(cb, LAMBDA file : file.path \notin DOMAIN modified), "content")

\* store_results when every write succeeds
store_results(dir, final) ==
    [project_json |-> <<final.project>>,
     files |-> update(update(dir.files, final.modified_files), final.new_files),
     thought_process_txt |-> <<final.thought_process>>]

\* store_results when a file of the result cannot be opened: project.json is
\* written, the files are not
store_results_interrupted(dir, final) ==
    [dir EXCEPT !.project_json = <<final.project>>]

ProjInit ==
    /\ ExecutorInit
    /\ AgentIdle
    /\ ProjectIdle
    /\ pc = "process_query"
    /\ code_base \in BaseCodebases

\* process_query up to the call of execute_project: the planner returns the
\* plan or raises
ProcessQuery ==
    /\ pc = "process_query"
    /\ thought_process' = reflect(thought_process, Thought("Processing query", 0, 0))
    /\ \/ /\ \E plan \in Projects : project' = plan
          /\ agent_results' = <<>>
          /\ ai' = 1
          /\ pc' = "execute_project"
          /\ UNCHANGED raised
       \/ /\ \E e \in {"ValueError", "TypeError", "ValidationError"} : RaiseFrom(e)
          /\ UNCHANGED <<project, agent_results, ai>>
    /\ UNCHANGED <<execVars, code_base, modified_code, iteration_count, response, tests, ti,
                   run_unsuccessful, run_successful, assigned, unsuccessful_tests,
                   successful_tests, ri, task_result, calls, logVars>>
    /\ UNCHANGED <<tk, task_results, project_result, store_calls, output_directory,
                   executed, round_codebases>>

\* for agent in project.agents: execute_agent_tasks is entered
ExecuteAgentTasks ==
    /\ pc = "execute_project"
    /\ ~for_loop_done(project, ai)
    /\ thought_process' = reflect(thought_process, Thought("Executing tasks for agent", ai, 0))
    /\ task_results' = <<>>
    /\ tk' = 1
    /\ pc' = "execute_agent_tasks"
    /\ UNCHANGED <<execVars, raised, code_base, modified_code, iteration_count, response, tests,
                   ti, run_unsuccessful, run_successful, assigned, unsuccessful_tests,
                   successful_tests, ri, task_result, calls, logVars>>
    /\ UNCHANGED <<project, ai, agent_results, project_result, store_calls, output_directory,
                   executed, round_codebases>>

\* execute_task returns: its TaskResult is appended to task_results
TaskReturns(r) ==
    /\ thought_process' = r.thoughts
    /\ round_codebases' = r.merged
    /\ task_results' = Append(task_results, r.task_result)
    /\ tk' = tk + 1
    /\ UNCHANGED <<pc, raised>>

\* for task in agent.tasks: execute_task(task, agent, codebase) from its call
\* to its return or to the exception that leaves it
ExecuteTask ==
    /\ pc = "execute_agent_tasks"
    /\ ~for_loop_done(project[ai].tasks, tk)
    /\ executed' = Append(executed, <<ai, tk>>)
    /\ \E tp \in {reflect(thought_process, Thought("Executing task", ai, tk))} :
          \/ IF project[ai].tasks[tk].task_type = "code_implementation"
                THEN \E generated \in ChangeSets,
                        outcomes \in [1..max_iterations -> TestOutcomes],
                        repairs \in [1..max_iterations -> ChangeSets] :
                        TaskReturns(modify_code(tp, code_base, generated, outcomes, repairs))
              ELSE TaskReturns(execute_llm_task(tp))
          \/ /\ \E e \in CollaboratorErrors : RaiseFrom(e)
             /\ thought_process' = tp
             /\ UNCHANGED <<round_codebases, task_results, tk>>
    /\ UNCHANGED <<execVars, code_base, modified_code, iteration_count, response, tests, ti,
                   run_unsuccessful, run_successful, assigned, unsuccessful_tests,
                   successful_tests, ri, task_result, calls, logVars>>
    /\ UNCHANGED <<project, ai, agent_results, project_result, store_calls, output_directory>>

\* execute_agent_tasks returns its AgentResult, execute_project appends it
AgentReturn ==
    /\ pc = "execute_agent_tasks"
    /\ for_loop_done(project[ai].tasks, tk)
    /\ agent_results' = Append(agent_results, AgentResult(project[ai].name, task_results))
    /\ ai' = ai + 1
    /\ pc' = "execute_project"
    /\ UNCHANGED <<execVars, raised, code_base, modified_code, iteration_count, response, tests,
                   ti, run_unsuccessful, run_successful, assigned, unsuccessful_tests,
                   successful_tests, ri, thought_process, task_result, calls, logVars>>
    /\ UNCHANGED <<project, tk, task_results, project_result, store_calls, output_directory,
                   executed, round_codebases>>

\* execute_project after its loop: the ProjectResult
ExecuteProjectReturn ==
    /\ pc = "execute_project"
    /\ for_loop_done(project, ai)
    /\ \E modified_files \in {get_modified_files(agent_results)} :
          project_result' = <<ProjectResult(project, agent_results, modified_files,
                                            get_new_files(agent_results),
                                            unchanged_files(code_base, modified_files),
                                            thought_process)>>
    /\ pc' = "compile_results"
    /\ UNCHANGED <<execVars, raised, code_base, modified_code, iteration_count, response, tests,
                   ti, run_unsuccessful, run_successful, assigned, unsuccessful_tests,
                   successful_tests, ri, thought_process, task_result, calls, logVars>>
    /\ UNCHANGED <<project, ai, tk, agent_results, task_results, store_calls,
                   output_directory, executed, round_codebases>>

\* compile_results, then store_results(final_result), then process_query returns
StoreResults ==
    /\ pc = "compile_results"
    /\ thought_process' = reflect(thought_process, Thought("Compiling final results", 0, 0))
    /\ store_calls' = store_calls + 1
    /\ \/ /\ output_directory' = store_results(output_directory, project_result[1])
          /\ pc' = "returned"
          /\ UNCHANGED raised
       \/ /\ output_directory' \in {output_directory,
                                    store_results_interrupted(output_directory, project_result[1])}
          /\ RaiseFrom("OSError")
    /\ UNCHANGED <<execVars, code_base, modified_code, iteration_count, response, tests, ti,
                   run_unsuccessful, run_successful, assigned, unsuccessful_tests,
                   successful_tests, ri, task_result, calls, logVars>>
    /\ UNCHANGED <<project, ai, tk, agent_results, task_results, project_result, executed,
                   round_codebases>>

ProjNext ==
    \/ ProcessQuery
    \/ ExecuteAgentTasks
    \/ ExecuteTask
    \/ AgentReturn
    \/ ExecuteProjectReturn
    \/ StoreResults

ProjSpec == ProjInit /\ [][ProjNext]_vars

----------------------------------------------------------------------------
(* Properties of CodeExecutor.run, stated on the latest call *)

Range(seq) == {seq[i] : i \in 1..Len(seq)}

Called == calls # <<>>
TheCall == calls[Len(calls)]

\* the names of the call's snippet that the classifier reports as external
\* against the call's codebase
ExternalImports(code, codebase) ==
    {n \in Range(analyze_imports(code)) : is_external_module(n, codebase)}

\* the names whose entry in the module table was a stand-in while the child ran
StandInsDuring(call) == {n \in ModuleNames : call.r.patched[n].kind = "mock"}

\* C1: run returns an ExecutionResult for every snippet and codebase and never
\* raises; an error is reported as success = FALSE with the error as output.
C1_RunNeverRaises ==
    Called => /\ ~TheCall.r.raised
              /\ (TheCall.env \in {"fs_error", "spawn_error"} \/ ~TheCall.code.parsable)
                    => ~TheCall.r.result.success /\ TheCall.r.result.output # <<>>

\* C2: after a call has ended, however it ended, sys.modules holds none of the
\* stand-ins that the call installed, and the scoped directory is gone.
C2_CleanupOnEveryExit ==
    Called => /\ \A n \in StandInsDuring(TheCall) : sys_modules[n] # TheCall.r.patched[n]
              /\ \A n \in TheCall.r.installed : sys_modules[n].kind # "mock"
              /\ TheCall.r.dir_after = "removed"

\* C2 witness: a call that installed a stand-in and ended by the timeout
C2_Witness ==
    /\ Called
    /\ TheCall.r.sp.outcome = "TimeoutExpired"
    /\ M_np \in StandInsDuring(TheCall)
    /\ sys_modules[M_np].kind = "absent"

\* C3: an import of an external name made by the executed snippet resolves to
\* the stand-in instead of failing; a snippet that only imports and references
\* one such name ends with success = TRUE and exactly that name as stand-ins used.
C3_ImportResolvesToStandIn ==
    (Called /\ ~TheCall.r.raised /\ TheCall.env = "normal") =>
        LET names == analyze_imports(TheCall.code)
            child == TheCall.r.sp.child
        IN /\ \A i \in 1..Len(names) :
                  is_external_module(names[i], TheCall.codebase) =>
                      /\ child.entry_executed
                      /\ Len(child.resolved) >= i
                      /\ child.resolved[i] # "ModuleNotFoundError"
           /\ (TheCall.code.body = "ref_only" /\ Cardinality(Range(names)) = 1
                   /\ ExternalImports(TheCall.code, TheCall.codebase) = Range(names))
                => /\ TheCall.r.result.success
                   /\ Range(TheCall.r.result.mocked_modules) = Range(names)

\* C4: the child runs the snippet written as the entry point: a snippet that
\* prints a value and ends normally gives success = TRUE and an output holding
\* the value, a snippet with a failing assertion gives success = FALSE.
C4_ChildRunsSnippet ==
    (Called /\ ~TheCall.r.raised /\ TheCall.env = "normal") =>
        /\ TheCall.r.sp.child.entry_executed
        /\ TheCall.code.body = "print4" =>
              TheCall.r.result.success /\ "4" \in Range(TheCall.r.result.output)
        /\ TheCall.code.body = "assert_fail" => ~TheCall.r.result.success

\* C5: a snippet that does not finish within the budget is terminated and the
\* call returns success = FALSE with the output 'Execution timed out'; a
\* snippet with an infinite loop gives that result.
C5_LoopTimesOut ==
    Called =>
        /\ TheCall.r.sp.outcome = "TimeoutExpired" =>
              /\ ~TheCall.r.raised
              /\ TheCall.r.result.success = FALSE
              /\ TheCall.r.result.output = <<"Execution timed out">>
        /\ (TheCall.code.body = "loop" /\ TheCall.env = "normal") =>
              /\ ~TheCall.r.raised
              /\ TheCall.r.result.success = FALSE
              /\ TheCall.r.result.output = <<"Execution timed out">>

\* C6: when the child exits, success is TRUE exactly when the exit status is
\* zero, and output is the child's stdout on success and its stderr otherwise.
C6_SuccessIffExitZero ==
    (Called /\ TheCall.r.sp.outcome = "CompletedProcess") =>
        /\ ~TheCall.r.raised
        /\ TheCall.r.result.success <=> (TheCall.r.sp.child.returncode = 0)
        /\ TheCall.r.result.success => TheCall.r.result.output = TheCall.r.sp.child.stdout
        /\ ~TheCall.r.result.success => TheCall.r.result.output = TheCall.r.sp.child.stderr

\* C6 witness: a child that exited with a non-zero status and wrote to stderr
C6_Witness ==
    /\ Called
    /\ TheCall.r.sp.outcome = "CompletedProcess"
    /\ TheCall.r.sp.child.returncode # 0
    /\ TheCall.r.sp.child.stderr # TheCall.r.sp.child.stdout
    /\ TheCall.r.result.output = TheCall.r.sp.child.stderr

\* C7: in any sequence of calls on one executor, the mocked_modules of each
\* result and the stand-ins installed during that call are exactly the external
\* names imported by that call's snippet, classified against that call's codebase.
C7_StandInsOfThisCallOnly ==
    (Called /\ ~TheCall.r.raised) =>
        /\ Range(TheCall.r.result.mocked_modules) = ExternalImports(TheCall.code, TheCall.codebase)
        /\ StandInsDuring(TheCall) = ExternalImports(TheCall.code, TheCall.codebase)

----------------------------------------------------------------------------
(* Properties of modify_code *)

Done == pc = "done"
TheResult == task_result[1]

\* the path -> code map of a ChangeSet, the last entry of a path winning
LastWrite(code_changes) ==
    [p \in {code_changes[i].path : i \in 1..Len(code_changes)} |->
        code_changes[CHOOSE i \in 1..Len(code_changes) :
                        /\ code_changes[i].path = p
                        /\ \A j \in (i + 1)..Len(code_changes) : code_changes[j].path # p].code]

\* the TestOutcome of the i-th sandbox call of the current round
OutcomeOf(i) ==
    TestResult(calls[i].r.result.success, calls[i].r.result.output,
               tests[i].test_code, tests[i].original_code_path)

RECURSIVE OutcomesWhere(_, _)
\* the outcomes of the first n calls of the round with the given success, in order
OutcomesWhere(n, success) ==
    IF n = 0 THEN <<>>
    ELSE IF calls[n].r.result.success = success
      THEN Append(OutcomesWhere(n - 1, success), OutcomeOf(n))
    ELSE OutcomesWhere(n - 1, success)

C9_TerminalResult ==
    Done =>
        /\ Len(calls) = Len(tests)
        /\ TheResult.success = (\A i \in 1..Len(calls) : calls[i].r.result.success)
        /\ TheResult.modified_files = LastWrite(modified_code)
        /\ TheResult.test_results =
              OutcomesWhere(Len(calls), TRUE) \o OutcomesWhere(Len(calls), FALSE)

\* C9 witness: Done at the cap with a ChangeSet that names a path twice and a
\* final round of one passing and one failing test
C9_Witness ==
    /\ Done
    /\ iteration_count = max_iterations
    /\ modified_code = G_dup
    /\ ~TheResult.success
    /\ Len(OutcomesWhere(Len(calls), TRUE)) = 1
    /\ Len(OutcomesWhere(Len(calls), FALSE)) = 1

\* C10: when the first round of tests has a failing test and the tests of the
\* repaired ChangeSet all pass, Done is reached with success = TRUE after exactly
\* one repair round (iteration count 1), no repair is requested after it, and
\* modified_files are those of the repaired ChangeSet.
C10_OneRepairRound ==
    (Done /\ Len(fail_history) >= 2 /\ fail_history[1] > 0 /\ fail_history[2] = 0) =>
        /\ TheResult.success
        /\ iteration_count = 1
        /\ repair_rounds = 1
        /\ Len(fail_history) = 2
        /\ repair_requests = fail_history[1]
        /\ modified_code = tested_code
        /\ TheResult.modified_files = LastWrite(tested_code)

\* C10 witness: two failing tests in the first round, none in the second
C10_Witness ==
    /\ Done
    /\ fail_history = <<2, 0>>
    /\ tests # <<>>
    /\ TheResult.success
    /\ iteration_count = 1

\* the thought that says the cap was reached
MaxReached == Thought("Maximum iterations reached. Some tests are still failing.", 0, 0)
AllPassed == Thought("All tests passed successfully.", 0, 0)

\* C11: when every round of tests has a failing test, modify_code returns
\* normally after max_iterations rounds with success = FALSE and the 'Maximum
\* iterations reached' thought; the thought is written in no run that ends
\* with all tests passed: it is written exactly when success = FALSE.
C11_CapIsNormalFailure ==
    /\ raised # "UnboundLocalError"
    /\ MaxReached \in Range(thought_process) => Done
    /\ Done =>
          /\ MaxReached \in Range(thought_process) <=> ~TheResult.success
          /\ ~(MaxReached \in Range(thought_process) /\ AllPassed \in Range(thought_process))
          /\ (\A i \in 1..Len(fail_history) : fail_history[i] > 0) =>
                /\ Len(fail_history) = max_iterations
                /\ repair_rounds = max_iterations
                /\ iteration_count = max_iterations
                /\ ~TheResult.success
                /\ TheResult.output = "Some tests are still failing"
                /\ MaxReached \in Range(thought_process)

\* C11 witness: three rounds, each with a failing test, then the result
C11_Witness ==
    /\ Done
    /\ Len(fail_history) = max_iterations
    /\ \A i \in 1..Len(fail_history) : fail_history[i] > 0
    /\ ~TheResult.success
    /\ thought_process[Len(thought_process)] = MaxReached

\* the program points of a round of tests once the tests are known
InRound == pc \in {"run_tests", "after_loop", "repair", "done"}

\* C12: when the test generator returns no test for the current ChangeSet,
\* modify_code ends at once with success = TRUE: no run call and no repair
\* request is made, the iteration count stays as it was (0 in the first round)
\* and modified_files are those of the ChangeSet that was current.
C12_ZeroTestsIsSuccess ==
    (InRound /\ tests = <<>>) =>
        /\ pc # "repair"
        /\ calls = <<>>
        /\ repair_log = <<>>
        /\ modified_code = tested_code
        /\ iteration_count = Len(fail_history) - (IF pc = "run_tests" THEN 0 ELSE 1)
        /\ iteration_count = repair_rounds
        /\ repair_rounds = 0 => iteration_count = 0 /\ repair_requests = 0
        /\ Done => /\ TheResult.success
                   /\ TheResult.test_results = <<>>
                   /\ TheResult.modified_files = LastWrite(tested_code)

\* C12 witness: the first round has no test and the result is returned
C12_Witness ==
    /\ Done
    /\ tests = <<>>
    /\ fail_history = <<0>>
    /\ iteration_count = 0
    /\ TheResult.success
    /\ TheResult.modified_files = LastWrite(modified_code)

\* C13: when the response of the test generator cannot be parsed into the list
\* of tests, run_tests raises and the error leaves modify_code: nothing
\* is run in that round, no outcome list and no repair request is produced, no
\* TaskResult is returned, and the round is not tried again.
C13_MalformedResponseIsFatal ==
    /\ [](response.kind \in Malformed =>
             /\ pc = "raised"
             /\ raised = generate_test_code(response).exc
             /\ raised \in {"ValueError", "TypeError", "ValidationError"}
             /\ calls = <<>>
             /\ repair_log = <<>>
             /\ task_result = <<>>
             /\ modified_code = tested_code)
    /\ [][response'.kind \in Malformed =>
             /\ fail_history' = fail_history
             /\ repair_requests' = repair_requests
             /\ repair_rounds' = repair_rounds
             /\ iteration_count' = iteration_count
             /\ mocked_modules' = mocked_modules
             /\ sys_modules' = sys_modules]_vars
    /\ [][pc # "raised"]_vars

\* C13 witness: the response of the second round is no JSON and the
\* ValueError has left modify_code
C13_Witness ==
    /\ pc = "raised"
    /\ raised = "ValueError"
    /\ response.kind = "not_json"
    /\ Len(fail_history) = 1
    /\ iteration_count = 1

----------------------------------------------------------------------------
(* Properties of the classifier, the import analyzer and the stand-ins *)

\* name occurs in path as a run of consecutive characters
Contains(path, name) ==
    \E i \in 1..(Len(path) + 1), j \in 0..Len(path) : SubSeq(path, i, j) = name

InSomePath(name, codebase) == \E file_path \in DOMAIN codebase : Contains(file_path, name)

\* C14: is_external_module(name, codebase) is FALSE when name is a builtin or
\* standard module of the host runtime, whatever the codebase holds; FALSE when
\* some path key of the codebase contains name as a substring; TRUE for every
\* name that is no builtin or standard module and is contained in no path key.
C14_ClassifierContract ==
    (Called /\ TheCall.code.parsable) =>
        \A name \in Range(analyze_imports(TheCall.code)) :
            /\ name \in StandardModules => ~is_external_module(name, TheCall.codebase)
            /\ InSomePath(name, TheCall.codebase) => ~is_external_module(name, TheCall.codebase)
            /\ (name \notin StandardModules /\ ~InSomePath(name, TheCall.codebase))
                  => is_external_module(name, TheCall.codebase)

RECURSIVE Nodes(_)
\* every statement of a text, nested ones included, depth first
Nodes(stmts) ==
    IF stmts = <<>> THEN <<>>
    ELSE <<Head(stmts)>> \o Nodes(Head(stmts).body) \o Nodes(Tail(stmts))

Count(seq, x) == Cardinality({i \in 1..Len(seq) : seq[i] = x})

\* the number of entries the imports of a text give to the name
Entries(nodes, name) ==
    Cardinality({ki \in (1..Len(nodes)) \X (1..2) :
                    /\ nodes[ki[1]].kind = "Import"
                    /\ ki[2] <= Len(nodes[ki[1]].names)
                    /\ nodes[ki[1]].names[ki[2]][1] = name})
    + Cardinality({k \in 1..Len(nodes) :
                    /\ nodes[k].kind = "ImportFrom"
                    /\ nodes[k].module # NoName
                    /\ nodes[k].module[1] = name})

\* C15: for a text that parses, analyze_imports returns one entry per name
\* of every plain import (the first segment of the name), one entry per
\* from-import that names a module (the first segment of the module),
\* nothing for a from-import without a module, and the empty list when the
\* text has no import statement.
C15_ImportsCollected ==
    (Called /\ TheCall.code.parsable) =>
        LET imports == analyze_imports(TheCall.code)
            nodes == Nodes(TheCall.code.stmts)
        IN /\ \A k \in 1..Len(nodes) : Len(nodes[k].names) <= 2
           /\ Range(imports) \subseteq ModuleNames
           /\ \A name \in ModuleNames : Count(imports, name) = Entries(nodes, name)
           /\ (\A k \in 1..Len(nodes) : nodes[k].kind \notin {"Import", "ImportFrom"})
                 => imports = <<>>

\* C15 witness: a text with a nested import, a from-import without a module,
\* a dotted name and a name imported twice
C15_Witness ==
    /\ Called
    /\ TheCall.code = S_mix
    /\ ~TheCall.r.raised
    /\ analyze_imports(TheCall.code) = <<M_np, M_os, M_np, M_fi>>

\* the entries of a mocked_modules dict made for the name
EntriesFor(mm, name) == {i \in 1..Len(mm) : mm[i].name = name}

\* C16: within one run, asking for the stand-in of an external name more
\* than once (the text imports the name several times) gives the same object:
\* one stand-in is made and registered for each external name.
C16_OneStandInPerName ==
    (Called /\ ~TheCall.r.raised) =>
        LET mm == TheCall.r.mocked_modules
        IN /\ \A i, j \in 1..Len(mm) :
                  (mm[i].name = mm[j].name \/ mm[i].mock.id = mm[j].mock.id) => i = j
           /\ \A i \in 1..Len(mm) : mm[i].mock.kind = "mock" /\ mm[i].mock.name = mm[i].name
           /\ \A name \in ExternalImports(TheCall.code, TheCall.codebase) :
                  /\ Cardinality(EntriesFor(mm, name)) = 1
                  /\ \A i \in EntriesFor(mm, name) : TheCall.r.patched[name] = mm[i].mock

\* C16 witness: a text that imports one external name twice, and another
\* external name, has run
C16_Witness ==
    /\ Called
    /\ ~TheCall.r.raised
    /\ Count(analyze_imports(TheCall.code), M_np) = 2
    /\ {M_np, M_fi} \subseteq ExternalImports(TheCall.code, TheCall.codebase)
    /\ Cardinality(EntriesFor(TheCall.r.mocked_modules, M_np)) = 1
    /\ Len(TheCall.r.mocked_modules) >= 2

----------------------------------------------------------------------------
(* Properties of the repair rounds *)

\* the number of run_tests calls that have returned
TestingRounds == Len(fail_history)

\* C17: every repair round is followed by a round of tests on the repaired
\* ChangeSet before modify_code returns: the outcomes and the success flag of
\* the result come from tests run against the ChangeSet whose files are
\* reported as modified_files, also when the iteration cap is reached.
C17_RepairIsRetested ==
    Done =>
        /\ TestingRounds = repair_rounds + 1
        /\ modified_code = tested_code
        /\ TheResult.modified_files = LastWrite(tested_code)

\* C18: in a repair round with several failing tests, every repair request is
\* made on the ChangeSet that was tested in that round: what an earlier
\* request of the round returned is not the input of a later one.
C18_RepairsSeeTestedCode ==
    \A i \in 1..Len(repair_log) :
        /\ repair_log[i].code = tested_code
        /\ i > 1 /\ repair_log[i - 1].returned # tested_code
              => repair_log[i].code # repair_log[i - 1].returned

\* the program points at which the run calls of the round are all made
AfterTests == pc \in {"repair", "while", "after_loop", "done"}

\* the failing outcomes of the round, in the order of the generated tests
FailingOutcomes == OutcomesWhere(Len(calls), FALSE)

\* C19: in a repair round one repair request is made for each failing test
\* of the round and none for a passing test, in the order in which the test
\* generator returned the tests, each with the code and the failure message
\* of its test; the ChangeSet current after the round is the one the last
\* request returned.
C19_OneRequestPerFailingTest ==
    AfterTests =>
        /\ Len(repair_log) <= Len(FailingOutcomes)
        /\ \A i \in 1..Len(repair_log) :
              /\ repair_log[i].test = FailingOutcomes[i].test_code
              /\ repair_log[i].test_result = FailingOutcomes[i].message
        /\ pc = "repair" => Len(repair_log) = ri - 1
        /\ (pc \in {"while", "done"} /\ FailingOutcomes # <<>>) =>
              /\ Len(repair_log) = Len(FailingOutcomes)
              /\ modified_code = repair_log[Len(repair_log)].returned

\* C19 witness: a round with two failing tests of different code has been
\* repaired
C19_Witness ==
    /\ pc = "while"
    /\ Len(FailingOutcomes) = 2
    /\ Len(repair_log) = 2
    /\ repair_log[1].test # repair_log[2].test
    /\ repair_log[1].returned # repair_log[2].returned
    /\ modified_code = repair_log[2].returned

\* C20: in every state of the loop 0 <= iteration_count <= max_iterations and
\* iteration_count is the number of repair rounds made so far; it grows by
\* exactly one per repair round; a repair round is started only when the round
\* of tests before it had a failing test and iteration_count was below the cap.
C20_IterationCount ==
    /\ [](/\ 0 <= iteration_count
          /\ iteration_count <= max_iterations
          /\ iteration_count = repair_rounds
          /\ pc = "repair" =>
                /\ unsuccessful_tests # <<>>
                /\ fail_history # <<>>
                /\ fail_history[Len(fail_history)] = Len(unsuccessful_tests)
                /\ iteration_count < max_iterations)
    /\ [][/\ iteration_count' # iteration_count =>
                /\ iteration_count' = iteration_count + 1
                /\ repair_rounds' = repair_rounds + 1
                /\ pc = "repair" /\ pc' = "while"
          /\ repair_rounds' # repair_rounds => iteration_count' # iteration_count
          /\ (pc # "repair" /\ pc' = "repair") =>
                /\ pc = "run_tests"
                /\ run_unsuccessful # <<>>
                /\ iteration_count < max_iterations]_vars

\* C20 witness: the third repair round has ended and the count is at the cap
C20_Witness ==
    /\ pc = "while"
    /\ iteration_count = max_iterations
    /\ repair_rounds = max_iterations
    /\ Len(fail_history) = max_iterations

----------------------------------------------------------------------------
(* Properties of run_tests *)

PathsOf(files) == {files[i].path : i \in 1..Len(files)}

\* the content of the base file at the path
BaseContent(base, p) == (CHOOSE f \in Range(base) : f.path = p).content

\* the base codebase with the files of the ChangeSet laid over it
Merged(base, code_changes) ==
    [p \in PathsOf(base) \cup PathsOf(code_changes) |->
        IF p \in PathsOf(code_changes) THEN LastWrite(code_changes)[p]
        ELSE BaseContent(base, p)]

\* C21: for every test of a round the codebase handed to run is the base
\* codebase with the files of the current ChangeSet laid over it: a path of the
\* ChangeSet maps to the ChangeSet's code (the last entry of a duplicated path,
\* a new path is added), any other base path to its base content, and all
\* tests of a round get the same codebase.
C21_MergedCodebase ==
    \A i \in 1..Len(calls) :
        /\ calls[i].codebase = Merged(code_base, tested_code)
        /\ pc = "run_tests" => tested_code = modified_code
        /\ \A j \in 1..Len(calls) : calls[j].codebase = calls[i].codebase

\* C21 witness: two tests have run against a ChangeSet that names a base
\* path twice
C21_Witness ==
    /\ pc = "run_tests"
    /\ Len(calls) = 2
    /\ tested_code = G_dup
    /\ calls[2].codebase[P_ut] = F_c
    /\ calls[2].codebase[P_main] = F_b
    /\ BaseContent(code_base, P_ut) = F_a

\* C22: run_tests runs the generated tests one at a time in the order of the
\* test generator and returns a partition: each test gives exactly one
\* outcome, in the failing list iff its run has success = FALSE (a timeout
\* included) and in the passing list otherwise; an outcome has the code and
\* the target path of its test and the output of its run as message, and both
\* lists keep the order of the tests.
C22_Partition ==
    pc \in {"run_tests", "repair", "after_loop", "done"} =>
        /\ Len(calls) <= Len(tests)
        /\ \A i \in 1..Len(calls) :
              /\ calls[i].code = tests[i].test_code
              /\ calls[i].r.sp.outcome = "TimeoutExpired" => ~calls[i].r.result.success
              /\ OutcomeOf(i).message = calls[i].r.result.output
              /\ OutcomeOf(i).original_code_path = tests[i].original_code_path
        /\ run_unsuccessful = OutcomesWhere(Len(calls), FALSE)
        /\ run_successful = OutcomesWhere(Len(calls), TRUE)
        /\ Len(run_unsuccessful) + Len(run_successful) = Len(calls)
        /\ pc = "run_tests" => Len(calls) = ti - 1
        /\ pc # "run_tests" =>
              /\ Len(calls) = Len(tests)
              /\ unsuccessful_tests = run_unsuccessful
              /\ successful_tests = run_successful

\* C22 witness: run_tests has returned one failing outcome, of a run that
\* timed out, and one passing outcome, for tests of different code
C22_Witness ==
    /\ pc = "repair"
    /\ Len(tests) = 2
    /\ tests[1] # tests[2]
    /\ calls[1].r.sp.outcome = "TimeoutExpired"
    /\ Len(unsuccessful_tests) = 1
    /\ Len(successful_tests) = 1
    /\ unsuccessful_tests[1].test_code = tests[1].test_code
    /\ unsuccessful_tests[1].message = <<"Execution timed out">>

----------------------------------------------------------------------------
(* Properties of the module table *)

StandIns(sm) == {n \in DOMAIN sm : sm[n].kind = "mock"}

C24_TableRestored ==
    [][(calls' # <<>> /\ ~calls'[Len(calls')].r.raised /\ calls' # calls) =>
          \A n \in ModuleNames : sys_modules'[n] = sys_modules[n]]_vars

----------------------------------------------------------------------------
(* Properties of process_query *)

\* the task results that execute_project was given, in plan order
ResultsOf(result) == all_task_results(result.agent_results)

RECURSIVE PlanOrderFrom(_, _)
\* the <<agent index, task index>> of the tasks of a plan from agent a on, in
\* plan order
PlanOrderFrom(plan, a) ==
    IF a > Len(plan) THEN <<>>
    ELSE [t \in 1..Len(plan[a].tasks) |-> <<a, t>>] \o PlanOrderFrom(plan, a + 1)

PlanOrder(plan) == PlanOrderFrom(plan, 1)

IsPrefix(s, t) == Len(s) <= Len(t) /\ SubSeq(t, 1, Len(s)) = s

\* C25: the base codebase is never modified: every round of every task is
\* tested against the original base with the round's ChangeSet laid over it,
\* so a file that only a superseded ChangeSet or an earlier task introduced
\* is absent from the codebase of a later round or task.
C25_BaseNeverModified ==
    /\ [][code_base' = code_base]_vars
    /\ [](\A i \in 1..Len(round_codebases) :
             LET round == round_codebases[i]
             IN /\ round.codebase = Merged(code_base, round.modified_code)
                /\ DOMAIN round.codebase = PathsOf(code_base) \cup PathsOf(round.modified_code))

\* C25 witness: the first task of an agent reported a new path, and the second
\* task's first round introduced that path too while its second round did not:
\* the codebase of the second round does not have it
C25_Witness ==
    /\ Len(task_results) = 2
    /\ P_np \in DOMAIN task_results[1].modified_files
    /\ P_np \notin PathsOf(code_base)
    /\ Len(round_codebases) = 2
    /\ round_codebases[1].modified_code = G_np
    /\ P_np \in DOMAIN round_codebases[1].codebase
    /\ round_codebases[2].modified_code = G_ut
    /\ P_np \notin DOMAIN round_codebases[2].codebase
    /\ round_codebases[2].codebase[P_main] = BaseContent(code_base, P_main)

C27_FailedTaskIsMerged ==
    project_result # <<>> =>
        LET results == ResultsOf(project_result[1])
            modified_files == project_result[1].modified_files
        IN /\ Len(results) = Len(PlanOrder(project))
           /\ DOMAIN modified_files =
                 UNION {DOMAIN results[i].modified_files : i \in 1..Len(results)}
           /\ \A p \in DOMAIN modified_files :
                 \E i \in 1..Len(results) :
                    /\ p \in DOMAIN results[i].modified_files
                    /\ modified_files[p] = results[i].modified_files[p]
                    /\ \A j \in (i + 1)..Len(results) : p \notin DOMAIN results[j].modified_files
           /\ pc = "returned" => output_directory.files = modified_files

\* C27 witness: the first task failed and the second succeeded, both report
\* the same path with different content, and the stored file is the second's
C27_Witness ==
    /\ pc = "returned"
    /\ Len(ResultsOf(project_result[1])) = 2
    /\ ~ResultsOf(project_result[1])[1].success
    /\ ResultsOf(project_result[1])[1].modified_files = LastWrite(G_dup)
    /\ ResultsOf(project_result[1])[2].success
    /\ ResultsOf(project_result[1])[2].modified_files = LastWrite(G_ut)
    /\ LastWrite(G_dup)[P_ut] # LastWrite(G_ut)[P_ut]
    /\ output_directory.files[P_ut] = F_b

\* C28: in a ProjectResult modified_files and unchanged_files have no path in
\* common, every path of the base codebase is in exactly one of the two, and
\* an unchanged file has the base content of its path.
C28_ModifiedAndUnchanged ==
    project_result # <<>> =>
        LET modified_files == project_result[1].modified_files
            unchanged == project_result[1].unchanged_files
        IN /\ DOMAIN modified_files \cap DOMAIN unchanged = {}
           /\ \A p \in PathsOf(code_base) :
                 (p \in DOMAIN modified_files) # (p \in DOMAIN unchanged)
           /\ \A p \in DOMAIN unchanged :
                 /\ p \in PathsOf(code_base)
                 /\ unchanged[p] = BaseContent(code_base, p)

\* C28 witness: a ProjectResult with a modified base file, a modified file
\* that is not in the base, and an unchanged base file
C28_Witness ==
    /\ project_result # <<>>
    /\ P_ut \in DOMAIN project_result[1].modified_files
    /\ P_np \in DOMAIN project_result[1].modified_files
    /\ DOMAIN project_result[1].unchanged_files = {P_main}
    /\ project_result[1].unchanged_files[P_main] = F_b

----------------------------------------------------------------------------
(* The scoped directory *)

\* C29: in the scoped directory of a call that got as far as writing it, the
\* entry-point file holds the snippet, also when the codebase has a file at
\* the entry-point path, and every other codebase path holds its codebase content.
C29_EntryPointHoldsSnippet ==
    (Called /\ TheCall.env # "fs_error") =>
        /\ DOMAIN TheCall.r.temp_dir = DOMAIN TheCall.codebase \cup {P_main}
        /\ TheCall.r.temp_dir[P_main] = TheCall.code
        /\ \A p \in DOMAIN TheCall.codebase \ {P_main} :
               TheCall.r.temp_dir[p] = TheCall.codebase[p]

\* a call whose codebase has its own file at the entry-point path
C29_Witness ==
    /\ Called
    /\ TheCall.env = "normal"
    /\ ~TheCall.r.raised
    /\ P_main \in DOMAIN TheCall.codebase
    /\ TheCall.codebase[P_main] # TheCall.code
    /\ TheCall.r.temp_dir[P_main] = TheCall.code
    /\ TheCall.r.temp_dir[P_ut] = TheCall.codebase[P_ut]

====
